---- MODULE Spec2Model ----
(***************************************************************************)
(* State-machine model of the satellite tracker service (src/app.py): a    *)
(* Flask application over two MySQL tables, satellites and positions.      *)
(* Every connection is opened with autocommit (DB_CFG), so each SQL        *)
(* statement is one atomic step on the shared store; a handler that issues *)
(* several statements is a process whose statements interleave with the    *)
(* statements of other requests.                                           *)
(***************************************************************************)
EXTENDS Integers, Sequences, FiniteSets, TLC

VARIABLES
    satellites,   \* rows of table satellites: [id, norad_id, name]
    positions,    \* rows of table positions: [id, satellite_id, timestamp, latitude, longitude, altitude_km, velocity_kmh]
    nextSid,      \* AUTO_INCREMENT counter of satellites.id
    nextPid,      \* AUTO_INCREMENT counter of positions.id
    pc,           \* per request slot: the statement the handler in flight runs next
    loc,          \* per request slot: the handler's local variables
    resp          \* the request that completed in the last step, with its response

vars == <<satellites, positions, nextSid, nextPid, pc, loc, resp>>

----------------------------------------------------------------------------
(* Bounds of the model *)

\* satellites.id values the AUTO_INCREMENT counter may hand out
MaxSatellites == 2
\* positions.id values the AUTO_INCREMENT counter may hand out
MaxPositions == 2

----------------------------------------------------------------------------
(* Program constants *)

ISS_NORAD == 25544
HistoryDefaultLimit == 50
HistoryMaxLimit == 1000
ListDefaultLimit == 50
ListMaxLimit == 1000

\* SQL NULL / Python None, and a present value
None == <<>>
Some(x) == <<x>>

----------------------------------------------------------------------------
(* Generic helpers *)

Min(a, b) == IF a < b THEN a ELSE b
Max(a, b) == IF a > b THEN a ELSE b

\* dict.get(key, default)
Get(data, key, default) == IF key \in DOMAIN data THEN data[key] ELSE default

\* list.reverse()
Reverse(seq) == [i \in 1..Len(seq) |-> seq[Len(seq) + 1 - i]]

\* str.strip() on the names a request may carry
Strip(s) == CASE s = " HST " -> "HST"
              [] OTHER -> s

----------------------------------------------------------------------------
(* The store: what the SQL statements compute *)

\* SELECT id FROM satellites WHERE norad_id=%s
SelectByNorad(norad) == {s \in satellites : s.norad_id = norad}

\* SELECT 1 FROM satellites WHERE id=%s
SatelliteExists(sid) == \E s \in satellites : s.id = sid

\* A satellites table without the UNIQUE index on norad_id
NoUniqueIndex(norad, sid) == FALSE

\* norad_id INT UNIQUE: an INSERT or UPDATE that would give row `sid` the
\* norad_id of another row raises IntegrityError
DuplicateNorad(norad, sid) == \E s \in satellites : s.norad_id = norad /\ s.id # sid

\* FOREIGN KEY (satellite_id) REFERENCES satellites(id): an INSERT into
\* positions naming no satellite row raises IntegrityError
ForeignKeyOk(sid) == SatelliteExists(sid)

\* A foreign key without ON DELETE CASCADE
NoCascade(sid) == positions

\* ... ON DELETE CASCADE: the positions that stay when satellite sid is deleted
CascadeDelete(sid) == {p \in positions : p.satellite_id # sid}

\* positions p JOIN satellites s ON s.id = p.satellite_id WHERE s.norad_id=%s
JoinByNorad(norad) ==
    {p \in positions : \E s \in satellites : s.id = p.satellite_id /\ s.norad_id = norad}

\* ORDER BY `timestamp` DESC: every order the engine may return the rows in
\* (rows of equal timestamp come in any order)
OrderByTimestampDesc(rows) ==
    {seq \in [1..Cardinality(rows) -> rows] :
        /\ \A i, j \in 1..Cardinality(rows) : i # j => seq[i] # seq[j]
        /\ \A i, j \in 1..Cardinality(rows) : i < j => seq[i].timestamp >= seq[j].timestamp}

\* LIMIT n
Limit(seq, n) == SubSeq(seq, 1, Min(n, Len(seq)))

\* max(lo, min(n, hi))
Clamp(n, lo, hi) == Max(lo, Min(n, hi))

\* The columns the ingestion and history queries select
Reading(p) == [timestamp |-> p.timestamp, latitude |-> p.latitude,
               longitude |-> p.longitude, altitude_km |-> p.altitude_km,
               velocity_kmh |-> p.velocity_kmh]

----------------------------------------------------------------------------
(* Request slots *)

Procs == {1, 2}

Idle == [op |-> "none"]

\* The step completes no request (a handler is between two statements)
Pending == [op |-> "pending"]

Init ==
    \* setup_app: init_db() creates the empty tables, get_satellite_id(25544, 'ISS') seeds the ISS
    /\ satellites = {[id |-> 1, norad_id |-> ISS_NORAD, name |-> "ISS"]}
    /\ positions = {}
    /\ nextSid = 2
    /\ nextPid = 1
    /\ pc = [p \in Procs |-> "idle"]
    /\ loc = [p \in Procs |-> Idle]
    /\ resp = Idle

----------------------------------------------------------------------------
(* CRUD: satellites (each handler issues one statement) *)

\* POST /api/satellites
create_satellite(data) ==
    LET name == Strip(Get(data, "name", ""))
    IN  /\ IF name = "" \/ "norad_id" \notin DOMAIN data
           THEN /\ resp' = [op |-> "create_satellite", data |-> data, status |-> 400]
                /\ UNCHANGED <<satellites, nextSid>>
           ELSE IF DuplicateNorad(data.norad_id, 0)
           THEN /\ resp' = [op |-> "create_satellite", data |-> data, status |-> 409]
                /\ UNCHANGED <<satellites, nextSid>>
           ELSE /\ nextSid <= MaxSatellites
                /\ satellites' = satellites \cup
                       {[id |-> nextSid, norad_id |-> data.norad_id, name |-> name]}
                /\ nextSid' = nextSid + 1
                /\ resp' = [op |-> "create_satellite", data |-> data, status |-> 201,
                            id |-> nextSid]
        /\ UNCHANGED <<positions, nextPid, pc, loc>>

\* The row UPDATE satellites SET ... WHERE id=%s writes in place of row s
PatchSatellite(s, data) ==
    [id |-> s.id,
     norad_id |-> Get(data, "norad_id", s.norad_id),
     name |-> IF "name" \in DOMAIN data THEN Strip(data.name) ELSE s.name]

\* cursor.rowcount after an UPDATE: MySQL reports the rows the statement
\* changed (the connection of DB_CFG does not ask for the rows it matched)
UpdateRowcount(old, new) == IF old = new THEN 0 ELSE 1

\* PUT /api/satellites/<sid>
update_satellite(sid, data) ==
    /\ IF DOMAIN data \cap {"name", "norad_id"} = {}
       THEN /\ resp' = [op |-> "update_satellite", sid |-> sid, data |-> data, status |-> 400]
            /\ UNCHANGED satellites
       ELSE IF ~SatelliteExists(sid)
       THEN /\ resp' = [op |-> "update_satellite", sid |-> sid, data |-> data, status |-> 404]
            /\ UNCHANGED satellites
       ELSE LET old == CHOOSE s \in satellites : s.id = sid
                new == PatchSatellite(old, data)
            IN  IF DuplicateNorad(new.norad_id, sid)
                THEN /\ resp' = [op |-> "update_satellite", sid |-> sid, data |-> data,
                                 status |-> 409]
                     /\ UNCHANGED satellites
                ELSE /\ satellites' = (satellites \ {old}) \cup {new}
                     /\ resp' = [op |-> "update_satellite", sid |-> sid, data |-> data,
                                 status |-> IF UpdateRowcount(old, new) = 0 THEN 404 ELSE 200]
    /\ UNCHANGED <<positions, nextSid, nextPid, pc, loc>>

\* DELETE /api/satellites/<sid>
delete_satellite(sid) ==
    /\ satellites' = {s \in satellites : s.id # sid}
    /\ positions' = IF SatelliteExists(sid) THEN CascadeDelete(sid) ELSE positions
    /\ resp' = [op |-> "delete_satellite", sid |-> sid,
                status |-> IF SatelliteExists(sid) THEN 200 ELSE 404]
    /\ UNCHANGED <<nextSid, nextPid, pc, loc>>

----------------------------------------------------------------------------
(* Ingestion: GET /api/iss, with get_satellite_id inlined (a process) *)

\* How requests.get / raise_for_status / r.json() may raise
FetchFailures == {"network", "timeout", "http_status", "not_json"}

\* The fields the handler reads with data[...]; the others are read with data.get
RequiredLiveFields == {"timestamp", "latitude", "longitude"}

\* The sample the handler builds from the upstream body (lines 124-128)
LiveSample(data) ==
    [timestamp |-> data.timestamp, latitude |-> data.latitude,
     longitude |-> data.longitude,
     altitude_km |-> Some(Get(data, "altitude", 0)),
     velocity_kmh |-> Some(Get(data, "velocity", 0))]

\* The positions row INSERT INTO positions (...) VALUES (...) adds
NewPosition(pid, sid, sample) ==
    [id |-> pid, satellite_id |-> sid, timestamp |-> sample.timestamp,
     latitude |-> sample.latitude, longitude |-> sample.longitude,
     altitude_km |-> sample.altitude_km, velocity_kmh |-> sample.velocity_kmh]

\* The fallback query ordered ASC instead of DESC
OldestKnown(rows) == {seq[Len(seq)] : seq \in OrderByTimestampDesc(rows)}

\* ORDER BY p.`timestamp` DESC LIMIT 1 over the tracked object's samples:
\* the rows the engine may return
LastKnown(rows) == {Limit(seq, 1)[1] : seq \in OrderByTimestampDesc(rows)}

\* get_satellite_id returns sid to api_iss (the step completes no request)
Returned(sid) == [op |-> "get_satellite_id", sid |-> sid]

IssResponse(fetch, status, extra) ==
    [op |-> "api_iss", fetch |-> fetch, status |-> status] @@ extra

\* try: requests.get ... except: the fallback; else the SELECT of get_satellite_id
api_iss_fetch(p, fetch) ==
    /\ pc[p] = "idle"
    /\ IF fetch.kind \in FetchFailures
       THEN /\ IF JoinByNorad(ISS_NORAD) = {}
               THEN resp' = IssResponse(fetch, 502, [created |-> FALSE, appended |-> 0])
               ELSE \E row \in LastKnown(JoinByNorad(ISS_NORAD)) :
                       resp' = IssResponse(fetch, 200,
                                   [source |-> "cache", reading |-> Reading(row),
                                    created |-> FALSE, appended |-> 0])
            /\ UNCHANGED <<pc, loc>>
       ELSE IF SelectByNorad(ISS_NORAD) # {}
       THEN /\ pc' = [pc EXCEPT ![p] = "iss_insert"]
            /\ loc' = [loc EXCEPT ![p] =
                   [op |-> "api_iss", fetch |-> fetch, created |-> FALSE,
                    sid |-> (CHOOSE s \in SelectByNorad(ISS_NORAD) : TRUE).id]]
            /\ resp' = Returned((CHOOSE s \in SelectByNorad(ISS_NORAD) : TRUE).id)
       ELSE /\ pc' = [pc EXCEPT ![p] = "sat_insert"]
            /\ loc' = [loc EXCEPT ![p] =
                   [op |-> "api_iss", fetch |-> fetch, created |-> FALSE, sid |-> 0]]
            /\ resp' = Pending
    /\ UNCHANGED <<satellites, positions, nextSid, nextPid>>

\* get_satellite_id: INSERT INTO satellites; on IntegrityError go on to the re-fetch
get_satellite_id_insert(p) ==
    /\ pc[p] = "sat_insert"
    /\ IF DuplicateNorad(ISS_NORAD, 0)
       THEN /\ pc' = [pc EXCEPT ![p] = "sat_refetch"]
            /\ resp' = Pending
            /\ UNCHANGED <<satellites, nextSid, loc>>
       ELSE /\ nextSid <= MaxSatellites
            /\ satellites' = satellites \cup
                   {[id |-> nextSid, norad_id |-> ISS_NORAD,
                     name |-> Get(loc[p].fetch.body, "name", "ISS")]}
            /\ nextSid' = nextSid + 1
            /\ loc' = [loc EXCEPT ![p].sid = nextSid, ![p].created = TRUE]
            /\ pc' = [pc EXCEPT ![p] = "iss_insert"]
            /\ resp' = Returned(nextSid)
    /\ UNCHANGED <<positions, nextPid>>

\* get_satellite_id: the re-fetch after IntegrityError; c.fetchone()['id']
\* raises TypeError when the row is gone
get_satellite_id_refetch(p) ==
    /\ pc[p] = "sat_refetch"
    /\ IF SelectByNorad(ISS_NORAD) = {}
       THEN /\ resp' = IssResponse(loc[p].fetch, 500,
                           [error |-> "TypeError", created |-> loc[p].created, appended |-> 0])
            /\ pc' = [pc EXCEPT ![p] = "idle"]
            /\ loc' = [loc EXCEPT ![p] = Idle]
       ELSE /\ resp' = Returned((CHOOSE s \in SelectByNorad(ISS_NORAD) : TRUE).id)
            /\ pc' = [pc EXCEPT ![p] = "iss_insert"]
            /\ loc' = [loc EXCEPT ![p].sid = (CHOOSE s \in SelectByNorad(ISS_NORAD) : TRUE).id]
    /\ UNCHANGED <<satellites, positions, nextSid, nextPid>>

\* The parse of the body and INSERT INTO positions
api_iss_insert(p) ==
    /\ pc[p] = "iss_insert"
    /\ IF ~(RequiredLiveFields \subseteq DOMAIN loc[p].fetch.body)
       THEN /\ resp' = IssResponse(loc[p].fetch, 500,
                           [error |-> "KeyError", created |-> loc[p].created, appended |-> 0])
            /\ UNCHANGED <<positions, nextPid>>
       ELSE IF ~ForeignKeyOk(loc[p].sid)
       THEN /\ resp' = IssResponse(loc[p].fetch, 500,
                           [error |-> "IntegrityError", created |-> loc[p].created,
                            appended |-> 0])
            /\ UNCHANGED <<positions, nextPid>>
       ELSE /\ nextPid <= MaxPositions
            /\ positions' = positions \cup
                   {NewPosition(nextPid, loc[p].sid, LiveSample(loc[p].fetch.body))}
            /\ nextPid' = nextPid + 1
            /\ resp' = IssResponse(loc[p].fetch, 200,
                           [source |-> "live", reading |-> LiveSample(loc[p].fetch.body),
                            created |-> loc[p].created, appended |-> 1,
                            sid |-> loc[p].sid, id |-> nextPid])
    /\ pc' = [pc EXCEPT ![p] = "idle"]
    /\ loc' = [loc EXCEPT ![p] = Idle]
    /\ UNCHANGED <<satellites, nextSid>>

----------------------------------------------------------------------------
(* Query service *)

\* The history query without rows.reverse()
HistoryRowsNewestFirst(seq, limit) == Limit(seq, limit)

\* rows.reverse() of ... ORDER BY p.`timestamp` DESC LIMIT %s
HistoryRows(seq, limit) == Reverse(Limit(seq, limit))

\* int(request.args.get('limit', 50)); max(1, min(limit, 1000))
HistoryLimit(arg) ==
    Clamp(IF arg = None THEN HistoryDefaultLimit ELSE arg[1], 1, HistoryMaxLimit)

\* GET /api/history?limit=N (arg is None when the request gives no limit).
\* The response holds the selected columns; ids names the rows they come from.
api_history(arg) ==
    /\ \E seq \in OrderByTimestampDesc(JoinByNorad(ISS_NORAD)) :
          resp' = [op |-> "api_history", limit |-> arg, status |-> 200,
                   rows |-> [i \in DOMAIN HistoryRows(seq, HistoryLimit(arg)) |->
                                Reading(HistoryRows(seq, HistoryLimit(arg))[i])],
                   ids |-> [i \in DOMAIN HistoryRows(seq, HistoryLimit(arg)) |->
                                HistoryRows(seq, HistoryLimit(arg))[i].id]]
    /\ UNCHANGED <<satellites, positions, nextSid, nextPid, pc, loc>>

----------------------------------------------------------------------------
(* CRUD: positions *)

\* int(request.args.get('limit', 50)); max(1, min(limit, 1000))
ListLimit(arg) ==
    Clamp(IF arg = None THEN ListDefaultLimit ELSE arg[1], 1, ListMaxLimit)

\* SELECT ... FROM positions WHERE satellite_id=%s ORDER BY `timestamp` DESC LIMIT %s:
\* the results the engine may return
ListRows(sat_id, limit) ==
    {Limit(seq, limit) :
        seq \in OrderByTimestampDesc({p \in positions : p.satellite_id = sat_id})}

\* GET /api/positions?satellite_id=K&limit=N
list_positions(sat_id, arg) ==
    /\ \E rows \in ListRows(sat_id, ListLimit(arg)) :
          resp' = [op |-> "list_positions", satellite_id |-> sat_id, limit |-> arg,
                   status |-> 200, rows |-> rows]
    /\ UNCHANGED <<satellites, positions, nextSid, nextPid, pc, loc>>

\* ts in (None, '', '0', 0)
NoTimestamp(data) == "timestamp" \notin DOMAIN data \/ data.timestamp = 0

\* create_position stamping every sample with the server's clock
PositionSampleServerTime(data, now) ==
    [timestamp |-> now,
     latitude |-> data.latitude,
     longitude |-> data.longitude,
     altitude_km |-> Get(data, "altitude_km", None),
     velocity_kmh |-> Get(data, "velocity_kmh", None)]

\* The values create_position parses from the request (lines 347-365);
\* now is int(time.time())
PositionSample(data, now) ==
    [timestamp |-> IF NoTimestamp(data) THEN now ELSE data.timestamp,
     latitude |-> data.latitude,
     longitude |-> data.longitude,
     altitude_km |-> Get(data, "altitude_km", None),
     velocity_kmh |-> Get(data, "velocity_kmh", None)]

\* POST /api/positions: the validation and SELECT 1 FROM satellites WHERE id=%s
create_position_select(p, data, now) ==
    /\ pc[p] = "idle"
    /\ IF \/ DOMAIN data = {}
          \/ "satellite_id" \notin DOMAIN data
          \/ ~({"latitude", "longitude"} \subseteq DOMAIN data)
       THEN /\ resp' = [op |-> "create_position", data |-> data, now |-> now, status |-> 400]
            /\ UNCHANGED <<pc, loc>>
       ELSE IF ~SatelliteExists(data.satellite_id)
       THEN /\ resp' = [op |-> "create_position", data |-> data, now |-> now, status |-> 404]
            /\ UNCHANGED <<pc, loc>>
       ELSE /\ resp' = Pending
            /\ pc' = [pc EXCEPT ![p] = "pos_insert"]
            /\ loc' = [loc EXCEPT ![p] =
                   [op |-> "create_position", data |-> data, now |-> now]]
    /\ UNCHANGED <<satellites, positions, nextSid, nextPid>>

\* POST /api/positions: INSERT INTO positions
create_position_insert(p) ==
    /\ pc[p] = "pos_insert"
    /\ IF ~ForeignKeyOk(loc[p].data.satellite_id)
       THEN /\ resp' = [op |-> "create_position", data |-> loc[p].data, now |-> loc[p].now,
                        status |-> 500, error |-> "IntegrityError"]
            /\ UNCHANGED <<positions, nextPid>>
       ELSE /\ nextPid <= MaxPositions
            /\ positions' = positions \cup
                   {NewPosition(nextPid, loc[p].data.satellite_id,
                                PositionSample(loc[p].data, loc[p].now))}
            /\ nextPid' = nextPid + 1
            /\ resp' = [op |-> "create_position", data |-> loc[p].data, now |-> loc[p].now,
                        status |-> 201, id |-> nextPid]
    /\ pc' = [pc EXCEPT ![p] = "idle"]
    /\ loc' = [loc EXCEPT ![p] = Idle]
    /\ UNCHANGED <<satellites, nextSid>>

PositionFields == {"timestamp", "latitude", "longitude", "altitude_km", "velocity_kmh"}

\* An update that writes every column, NULL for the optional ones the
\* request leaves out
ReplacePosition(r, data) ==
    [id |-> r.id, satellite_id |-> r.satellite_id,
     timestamp |-> Get(data, "timestamp", r.timestamp),
     latitude |-> Get(data, "latitude", r.latitude),
     longitude |-> Get(data, "longitude", r.longitude),
     altitude_km |-> Get(data, "altitude_km", None),
     velocity_kmh |-> Get(data, "velocity_kmh", None)]

\* The row UPDATE positions SET ... WHERE id=%s writes in place of row r
PatchPosition(r, data) ==
    [id |-> r.id, satellite_id |-> r.satellite_id,
     timestamp |-> Get(data, "timestamp", r.timestamp),
     latitude |-> Get(data, "latitude", r.latitude),
     longitude |-> Get(data, "longitude", r.longitude),
     altitude_km |-> Get(data, "altitude_km", r.altitude_km),
     velocity_kmh |-> Get(data, "velocity_kmh", r.velocity_kmh)]

\* PUT /api/positions/<pid>
update_position_row(pid, data) ==
    /\ IF DOMAIN data \cap PositionFields = {}
       THEN /\ resp' = [op |-> "update_position_row", id |-> pid, data |-> data,
                        status |-> 400]
            /\ UNCHANGED positions
       ELSE IF ~\E r \in positions : r.id = pid
       THEN /\ resp' = [op |-> "update_position_row", id |-> pid, data |-> data,
                        status |-> 404]
            /\ UNCHANGED positions
       ELSE LET old == CHOOSE r \in positions : r.id = pid
                new == PatchPosition(old, data)
            IN  /\ positions' = (positions \ {old}) \cup {new}
                /\ resp' = [op |-> "update_position_row", id |-> pid, data |-> data,
                            status |-> IF UpdateRowcount(old, new) = 0 THEN 404 ELSE 200]
    /\ UNCHANGED <<satellites, nextSid, nextPid, pc, loc>>

\* DELETE /api/positions/<pid>
delete_position_row(pid) ==
    /\ positions' = {r \in positions : r.id # pid}
    /\ resp' = [op |-> "delete_position_row", id |-> pid,
                status |-> IF \E r \in positions : r.id = pid THEN 200 ELSE 404]
    /\ UNCHANGED <<satellites, nextSid, nextPid, pc, loc>>

----------------------------------------------------------------------------
(* The requests and upstream answers the model draws from *)

SatelliteIds == 1..MaxSatellites
PositionIds == 1..MaxPositions

SatelliteBodies ==
    { [name |-> "ISS", norad_id |-> ISS_NORAD],
      [name |-> " HST ", norad_id |-> 20580],
      [norad_id |-> ISS_NORAD],
      [name |-> " HST "] }

GoodBody == [name |-> "iss", timestamp |-> 2, latitude |-> 10, longitude |-> 30,
             altitude |-> 400, velocity |-> 27600]
SparseBody == [timestamp |-> 1, latitude |-> 20, longitude |-> 40]
BadBody == [latitude |-> 10, longitude |-> 30]

Fetches(bodies) ==
    {[kind |-> k, body |-> None] : k \in FetchFailures}
        \cup {[kind |-> "json", body |-> b] : b \in bodies}

Clock == {3}

RacePositionBodies ==
    {[satellite_id |-> k, timestamp |-> 1, latitude |-> 10, longitude |-> 30] : k \in SatelliteIds}

\* Requests in flight together: every statement of one interleaves with the
\* statements of the others
Next ==
    \/ \E data \in SatelliteBodies : create_satellite(data)
    \/ \E sid \in SatelliteIds, data \in SatelliteBodies : update_satellite(sid, data)
    \/ \E sid \in SatelliteIds : delete_satellite(sid)
    \/ \E p \in Procs, fetch \in Fetches({GoodBody, BadBody}) : api_iss_fetch(p, fetch)
    \/ \E p \in Procs : get_satellite_id_insert(p)
    \/ \E p \in Procs : get_satellite_id_refetch(p)
    \/ \E p \in Procs : api_iss_insert(p)
    \/ \E sid \in SatelliteIds : list_positions(sid, None)
    \/ \E p \in Procs, data \in RacePositionBodies, now \in Clock :
          create_position_select(p, data, now)
    \/ \E p \in Procs : create_position_insert(p)

Spec == Init /\ [][Next]_vars

----------------------------------------------------------------------------
(* Requests served one at a time: a handler runs to its response before the
   next request starts *)

Quiet == \A p \in Procs : pc[p] = "idle"

UnknownBody == [comment |-> "x"]

LimitArgs == {None, Some(-1), Some(0), Some(1), Some(2), Some(5000)}

HistoryPositionBodies ==
    UNION {{ [satellite_id |-> k, timestamp |-> 1, latitude |-> 10, longitude |-> 30],
             [satellite_id |-> k, timestamp |-> 2, latitude |-> 20, longitude |-> 40] }
           : k \in SatelliteIds}

\* Ingestion and history: samples arrive from the upstream source and from
\* the record API, are re-stamped and deleted, and satellites change hands
NextHistory ==
    \/ \E data \in {[name |-> "ISS", norad_id |-> ISS_NORAD],
                    [name |-> " HST ", norad_id |-> 20580]} : Quiet /\ create_satellite(data)
    \/ \E sid \in SatelliteIds, data \in {[norad_id |-> ISS_NORAD], [norad_id |-> 20580]} :
          Quiet /\ update_satellite(sid, data)
    \/ \E sid \in SatelliteIds : Quiet /\ delete_satellite(sid)
    \/ \E fetch \in Fetches({GoodBody, SparseBody, BadBody}) : Quiet /\ api_iss_fetch(1, fetch)
    \/ get_satellite_id_insert(1)
    \/ api_iss_insert(1)
    \/ \E arg \in LimitArgs : Quiet /\ api_history(arg)
    \/ \E data \in HistoryPositionBodies, now \in Clock :
          Quiet /\ create_position_select(1, data, now)
    \/ create_position_insert(1)
    \/ \E pid \in PositionIds, data \in {[timestamp |-> 1], [timestamp |-> 2]} :
          Quiet /\ update_position_row(pid, data)
    \/ \E pid \in PositionIds : Quiet /\ delete_position_row(pid)

SpecHistory == Init /\ [][NextHistory]_vars

RecordPositionBodies ==
    { [satellite_id |-> 1, timestamp |-> 1, latitude |-> 10, longitude |-> 30,
       altitude_km |-> Some(400), velocity_kmh |-> Some(27600)],
      [satellite_id |-> 1, timestamp |-> 0, latitude |-> 20, longitude |-> 40],
      [satellite_id |-> 1, latitude |-> 10, longitude |-> 40, altitude_km |-> None],
      [satellite_id |-> 2, timestamp |-> 2, latitude |-> 20, longitude |-> 30],
      [timestamp |-> 1, latitude |-> 10, longitude |-> 30],
      [satellite_id |-> 1, latitude |-> 10] }

RecordPositionPatches ==
    { [timestamp |-> 2], [latitude |-> 20], [altitude_km |-> None],
      [altitude_km |-> Some(400)], [longitude |-> 40, velocity_kmh |-> Some(27600)],
      UnknownBody }

\* Record management: the CRUD handlers of both tables
NextRecords ==
    \/ \E data \in SatelliteBodies : Quiet /\ create_satellite(data)
    \/ \E sid \in SatelliteIds, data \in SatelliteBodies \cup {UnknownBody} :
          Quiet /\ update_satellite(sid, data)
    \/ \E sid \in SatelliteIds, arg \in {None, Some(1)} : Quiet /\ list_positions(sid, arg)
    \/ \E data \in RecordPositionBodies, now \in Clock :
          Quiet /\ create_position_select(1, data, now)
    \/ create_position_insert(1)
    \/ \E pid \in PositionIds, data \in RecordPositionPatches :
          Quiet /\ update_position_row(pid, data)
    \/ \E pid \in PositionIds : Quiet /\ delete_position_row(pid)

SpecRecords == Init /\ [][NextRecords]_vars

----------------------------------------------------------------------------
(* Properties of the concurrent service (Spec) *)

\* C1: in every reachable state no two satellite records share a norad_id;
\* a create_satellite answered 409 leaves exactly one record with the
\* identifier it asked for.
C1_UniqueNorad ==
    /\ \A s, t \in satellites : s.norad_id = t.norad_id => s = t
    /\ (resp.op = "create_satellite" /\ resp.status = 409) =>
           Cardinality({s \in satellites : s.norad_id = resp.data.norad_id}) = 1

\* C1: a well-formed create_satellite whose norad_id is already held is
\* answered 409 and changes nothing; an update_satellite that would give an
\* existing record the norad_id of another record is answered 409 and
\* changes nothing.
C1_ConflictStep ==
    /\ ( /\ resp'.op = "create_satellite"
         /\ "norad_id" \in DOMAIN resp'.data
         /\ "name" \in DOMAIN resp'.data
         /\ \E s \in satellites : s.norad_id = resp'.data.norad_id )
       => (resp'.status = 409 /\ satellites' = satellites /\ positions' = positions)
    /\ ( /\ resp'.op = "update_satellite"
         /\ "norad_id" \in DOMAIN resp'.data
         /\ \E s \in satellites : s.id = resp'.sid
         /\ \E s \in satellites : s.id # resp'.sid /\ s.norad_id = resp'.data.norad_id )
       => (resp'.status = 409 /\ satellites' = satellites /\ positions' = positions)

\* C1: the external identifier is unique in every reachable state, under any
\* interleaving of create_satellite, update_satellite, delete_satellite,
\* get_satellite_id and api_iss, and conflicting requests are answered 409
\* without effect.
C1_UniqueExternalId == []C1_UniqueNorad /\ [][C1_ConflictStep]_vars

\* An update carrying a name and the norad_id of another record was refused
C1_Witness ==
    /\ resp.op = "update_satellite"
    /\ resp.status = 409
    /\ "name" \in DOMAIN resp.data
    /\ Cardinality(satellites) = 2

\* The satellites no longer in the table: every key below the counter was
\* handed out, and a key leaves the table only through delete_satellite
DeletedSatellites == {k \in 1..(nextSid - 1) : ~\E s \in satellites : s.id = k}

\* C2: every position sample references a satellite record that exists, in
\* every reachable state (create_position's existence check and insert
\* interleaved with delete_satellite included); once delete_satellite(k) has
\* succeeded, no sample of k is left and list_positions for k is empty.
C2_CascadeDelete ==
    /\ \A r \in positions : \E s \in satellites : s.id = r.satellite_id
    /\ \A k \in DeletedSatellites : ListRows(k, ListLimit(None)) = {<<>>}
    /\ (resp.op = "delete_satellite" /\ resp.status = 200) =>
           ~\E r \in positions : r.satellite_id = resp.sid
    /\ (resp.op = "list_positions" /\ resp.satellite_id \in DeletedSatellites) =>
           resp.rows = <<>>

\* delete_satellite succeeded and took samples with it (Spec removes samples
\* in no other way)
C2_Witness ==
    /\ resp.op = "delete_satellite"
    /\ resp.status = 200
    /\ Cardinality(positions) < nextPid - 1

\* C3: every get_satellite_id call returns the key of the record holding the
\* identifier: no call ends in an unhandled failure, the key a call returns
\* is the key of the record that holds norad_id 25544 when it returns, and
\* at most one record holds the identifier.
C3_ResolverReturnsHolder ==
    /\ ~(resp.op = "api_iss" /\ resp.status = 500 /\ resp.error = "TypeError")
    /\ resp.op = "get_satellite_id" =>
           \E s \in satellites : s.id = resp.sid /\ s.norad_id = ISS_NORAD
    /\ Cardinality({s \in satellites : s.norad_id = ISS_NORAD}) <= 1

----------------------------------------------------------------------------
(* Properties of ingestion and history (SpecHistory) *)

\* The samples of the tracked object: those of the satellite holding norad_id 25544
Tracked ==
    {r \in positions : \E s \in satellites : s.id = r.satellite_id /\ s.norad_id = 25544}

\* The live fetch failed: the request raised, or the body is malformed
FetchFailed(fetch) ==
    \/ fetch.kind \in {"network", "timeout", "http_status", "not_json"}
    \/ ~({"timestamp", "latitude", "longitude"} \subseteq DOMAIN fetch.body)

\* C4 (as claimed): with the source unreachable and a sample stored, api_iss
\* answers "cache" with the sample of the tracked object stored last; with
\* no sample it answers 502.
C4_FallbackIsLastStored ==
    (resp.op = "api_iss" /\ resp.fetch.kind \in {"network", "timeout", "http_status"}) =>
        IF Tracked = {}
        THEN resp.status = 502
        ELSE /\ resp.status = 200
             /\ resp.source = "cache"
             /\ \E r \in Tracked :
                   /\ \A q \in Tracked : q.id <= r.id
                   /\ resp.reading = Reading(r)

\* C4 (amended): with the source unreachable and a sample stored, api_iss
\* answers "cache" with a sample of the tracked object whose timestamp is
\* the greatest among the tracked object's samples; with no sample it
\* answers 502.
C4_FallbackIsLatestTimestamp ==
    (resp.op = "api_iss" /\ resp.fetch.kind \in {"network", "timeout", "http_status"}) =>
        IF Tracked = {}
        THEN resp.status = 502
        ELSE /\ resp.status = 200
             /\ resp.source = "cache"
             /\ \E r \in Tracked :
                   /\ \A q \in Tracked : q.timestamp <= r.timestamp
                   /\ resp.reading = Reading(r)

\* The fallback answered from a store whose newest timestamp is not on the
\* sample stored last
C4_Witness ==
    /\ resp.op = "api_iss"
    /\ resp.fetch.kind = "timeout"
    /\ resp.status = 200
    /\ \E r, q \in Tracked : r.id < q.id /\ r.timestamp > q.timestamp

\* C5: whenever the live fetch fails (network error, timeout, non-success
\* status, body that is not JSON, JSON lacking timestamp, latitude or
\* longitude) api_iss answers with the cached sample or with 502, never with
\* an unhandled failure, and writes no sample row.
C5_FailureTakesFallback ==
    (resp.op = "api_iss" /\ FetchFailed(resp.fetch)) =>
        /\ \/ resp.status = 200 /\ resp.source = "cache"
           \/ resp.status = 502
        /\ resp.appended = 0

\* C6: an api_iss invocation whose live fetch succeeds appends exactly one
\* sample row, attached to the satellite record holding norad_id 25544; an
\* invocation whose fetch fails leaves the store unchanged.
C6_OneRowPerLiveFetch ==
    resp.op = "api_iss" =>
        IF FetchFailed(resp.fetch)
        THEN resp.appended = 0 /\ ~resp.created
        ELSE /\ resp.status = 200
             /\ resp.source = "live"
             /\ resp.appended = 1
             /\ \E r \in Tracked : r.id = resp.id /\ Reading(r) = resp.reading

\* C7: api_history returns min(clamp(N, 1, 1000), number of samples) rows
\* (50 for N when no limit is given), each a sample of the tracked object,
\* ordered non-decreasing by timestamp, and no omitted sample of the tracked
\* object is newer than a returned one.
C7_HistoryMostRecent ==
    resp.op = "api_history" =>
        LET n == Len(resp.rows)
            want == IF resp.limit = None THEN 50
                    ELSE IF resp.limit[1] < 1 THEN 1
                    ELSE IF resp.limit[1] > 1000 THEN 1000 ELSE resp.limit[1]
        IN  /\ n <= want
            /\ n = IF Cardinality(Tracked) < want THEN Cardinality(Tracked) ELSE want
            /\ \A i, j \in 1..n : i # j => resp.ids[i] # resp.ids[j]
            /\ \A i \in 1..n : \E r \in Tracked : r.id = resp.ids[i] /\ Reading(r) = resp.rows[i]
            /\ \A i, j \in 1..n : i < j => resp.rows[i].timestamp <= resp.rows[j].timestamp
            /\ \A r \in Tracked :
                  (\A i \in 1..n : resp.ids[i] # r.id) =>
                      \A i \in 1..n : r.timestamp <= resp.rows[i].timestamp

\* A history of two rows in chronological order
C7_Witness ==
    /\ resp.op = "api_history"
    /\ Len(resp.rows) = 2
    /\ resp.rows[1].timestamp < resp.rows[2].timestamp

----------------------------------------------------------------------------
(* Properties of record management (SpecRecords) *)

\* C8: an update carrying a recognized field is answered 404 exactly when no
\* record with the given key exists; for an existing record it is answered
\* 200 (or 409 on a duplicate norad_id), also when the values supplied equal
\* the values stored.
C8_NotFoundIffAbsent ==
    /\ (resp.op = "update_satellite" /\ DOMAIN resp.data \cap {"name", "norad_id"} # {}) =>
           IF \E s \in satellites : s.id = resp.sid
           THEN resp.status \in {200, 409}
           ELSE resp.status = 404
    /\ ( /\ resp.op = "update_position_row"
         /\ DOMAIN resp.data \cap
                {"timestamp", "latitude", "longitude", "altitude_km", "velocity_kmh"} # {} ) =>
           IF \E r \in positions : r.id = resp.id
           THEN resp.status = 200
           ELSE resp.status = 404

\* The value a field of a record has after an update that may carry it
After(data, key, old) == IF key \in DOMAIN data THEN data[key] ELSE old

\* C9, satellites: update_satellite leaves the positions, the set of keys and
\* every other satellite as they were; unless it answers 200 it changes
\* nothing; when it answers 200 the fields absent from the request keep
\* their values and the fields present take the request's; a request with no
\* recognized field is answered 400.
C9_SatelliteFrame ==
    resp'.op = "update_satellite" =>
        /\ positions' = positions
        /\ {s.id : s \in satellites'} = {s.id : s \in satellites}
        /\ \A s \in satellites : s.id # resp'.sid => s \in satellites'
        /\ resp'.status # 200 => satellites' = satellites
        /\ (DOMAIN resp'.data \cap {"name", "norad_id"} = {}) => resp'.status = 400
        /\ resp'.status = 200 =>
              \A s \in satellites, t \in satellites' :
                  (s.id = resp'.sid /\ t.id = resp'.sid) =>
                      /\ t.norad_id = After(resp'.data, "norad_id", s.norad_id)
                      /\ "name" \notin DOMAIN resp'.data => t.name = s.name
                      /\ "name" \in DOMAIN resp'.data => t.name = Strip(resp'.data.name)

\* C9, positions: update_position_row leaves the satellites, the set of keys
\* and every other position as they were; unless it answers 200 it changes
\* nothing; when it answers 200 the record keeps its key and its satellite,
\* the fields absent from the request keep their values and the fields
\* present take the request's; a request with no recognized field is
\* answered 400.
C9_PositionFrame ==
    resp'.op = "update_position_row" =>
        /\ satellites' = satellites
        /\ {r.id : r \in positions'} = {r.id : r \in positions}
        /\ \A r \in positions : r.id # resp'.id => r \in positions'
        /\ resp'.status # 200 => positions' = positions
        /\ (DOMAIN resp'.data \cap
               {"timestamp", "latitude", "longitude", "altitude_km", "velocity_kmh"} = {})
              => resp'.status = 400
        /\ resp'.status = 200 =>
              \A r \in positions, t \in positions' :
                  (r.id = resp'.id /\ t.id = resp'.id) =>
                      /\ t.satellite_id = r.satellite_id
                      /\ t.timestamp = After(resp'.data, "timestamp", r.timestamp)
                      /\ t.latitude = After(resp'.data, "latitude", r.latitude)
                      /\ t.longitude = After(resp'.data, "longitude", r.longitude)
                      /\ t.altitude_km = After(resp'.data, "altitude_km", r.altitude_km)
                      /\ t.velocity_kmh = After(resp'.data, "velocity_kmh", r.velocity_kmh)

\* C9: a successful update changes only the fields present in the request,
\* on the record with the given key, and a request with no recognized field
\* is rejected without effect.
C9_PartialUpdateFrame == [][C9_SatelliteFrame /\ C9_PositionFrame]_vars

\* A position that has an altitude and a velocity was given a new latitude only
C9_Witness ==
    /\ resp.op = "update_position_row"
    /\ resp.status = 200
    /\ DOMAIN resp.data = {"latitude"}
    /\ \E r \in positions :
          r.id = resp.id /\ r.altitude_km # None /\ r.velocity_kmh # None

\* What list_positions may return for the satellite of the position
\* create_position answered with
ReadBack == ListRows(resp.data.satellite_id, ListLimit(None))

\* The fields other than the timestamp are those of the request
SameReading(row) ==
    /\ row.satellite_id = resp.data.satellite_id
    /\ row.latitude = resp.data.latitude
    /\ row.longitude = resp.data.longitude
    /\ row.altitude_km = After(resp.data, "altitude_km", None)
    /\ row.velocity_kmh = After(resp.data, "velocity_kmh", None)

AsClaimed(row) ==
    /\ SameReading(row)
    /\ row.timestamp = After(resp.data, "timestamp", resp.now)

AsAmended(row) ==
    /\ SameReading(row)
    /\ row.timestamp = IF "timestamp" \in DOMAIN resp.data /\ resp.data.timestamp # 0
                       THEN resp.data.timestamp ELSE resp.now

\* C10 (as claimed): a created position reads back with the latitude,
\* longitude, altitude, velocity and timestamp of the request, the timestamp
\* being the current time only when the request supplies none.
C10_RoundTrip ==
    (resp.op = "create_position" /\ resp.status = 201) =>
        \A rows \in ReadBack :
            \E i \in 1..Len(rows) : rows[i].id = resp.id /\ AsClaimed(rows[i])

\* C10 (amended): a created position reads back with the latitude,
\* longitude, altitude and velocity of the request, and with the request's
\* timestamp when it supplies one other than 0; a request with no timestamp
\* or with timestamp 0 is stamped with the current time.
C10_RoundTripNonZero ==
    (resp.op = "create_position" /\ resp.status = 201) =>
        \A rows \in ReadBack :
            \E i \in 1..Len(rows) : rows[i].id = resp.id /\ AsAmended(rows[i])

\* A position was created from a request carrying a timestamp, an altitude
\* and a velocity
C10_Witness ==
    /\ resp.op = "create_position"
    /\ resp.status = 201
    /\ {"timestamp", "altitude_km", "velocity_kmh"} \subseteq DOMAIN resp.data
    /\ resp.data.timestamp # 0
    /\ resp.data.altitude_km # None

====
